---- MODULE Spec2Model ----
(***************************************************************************)
(* Model of the publish task (src/task.py): class Publish with get_path,   *)
(* update_links, update_item_dates, publish_item_to_s3 and process.        *)
(*                                                                         *)
(* Text (a Python str) is a sequence of atoms.  An atom is either one of   *)
(* the characters the code looks at ("$", "{", "}", "/", ":", a digit of a *)
(* datetime) or a run of characters the code never looks into ("landsat",  *)
(* "__colon__", ".json").  String operations of the code are modelled      *)
(* atom by atom.                                                           *)
(***************************************************************************)
EXTENDS Integers, Sequences, FiniteSets, TLC

-----------------------------------------------------------------------------
(* Results of a call that either returns a value or raises.                *)

NoErr == [type |-> "none", msg |-> <<>>]

Ok(v) == [ok |-> TRUE, val |-> v, err |-> NoErr]

Raise(type, msg) == [ok |-> FALSE, val |-> <<>>, err |-> [type |-> type, msg |-> msg]]

-----------------------------------------------------------------------------
(* Python values that are converted with str(): a str or an int.           *)

PStr(text) == [t |-> "str", v |-> text]

PInt(n) == [t |-> "int", v |-> n]

\* the instant n as rendered by datetime.isoformat()
PIso(n) == [t |-> "iso", v |-> n]

\* str(x), as string.Template.substitute applies it to every value
PyStr(x) == IF x.t = "int" THEN <<ToString(x.v)>> ELSE x.v

EmptyDict == [x \in {} |-> 0]

\* the {} that line 155 uses as the default of path_template
PDict == [t |-> "dict", v |-> <<>>]

DictPut(d, k, v) == [x \in (DOMAIN d) \cup {k} |-> IF x = k THEN v ELSE d[x]]

\* dict.get(k, default)
DictGet(d, k, default) == IF k \in DOMAIN d THEN d[k] ELSE default

\* extra.update(headers)
DictUpdate(d, e) == [x \in (DOMAIN d) \cup (DOMAIN e) |-> IF x \in DOMAIN e THEN e[x] ELSE d[x]]

-----------------------------------------------------------------------------
(* str methods                                                             *)

\* s.replace(a, b) for a single atom a
Replace(s, a, b) == [i \in 1..Len(s) |-> IF s[i] = a THEN b ELSE s[i]]

RECURSIVE RStrip(_, _)
RStrip(s, a) ==
    IF s # <<>> /\ s[Len(s)] = a THEN RStrip(SubSeq(s, 1, Len(s) - 1), a) ELSE s

RECURSIVE LStrip(_, _)
LStrip(s, a) == IF s # <<>> /\ Head(s) = a THEN LStrip(Tail(s), a) ELSE s

StartsWith(s, p) == Len(s) >= Len(p) /\ SubSeq(s, 1, Len(p)) = p

\* the first index >= i of atom a in s, 0 when there is none
RECURSIVE IndexFrom(_, _, _)
IndexFrom(s, a, i) ==
    IF i > Len(s) THEN 0 ELSE IF s[i] = a THEN i ELSE IndexFrom(s, a, i + 1)

\* s.split(a) without the empty pieces, joined again with a
RECURSIVE Segments(_, _)
Segments(s, a) ==
    LET t == LStrip(s, a)
        k == IndexFrom(t, a, 1)
    IN  IF t = <<>> THEN <<>>
        ELSE IF k = 0 THEN <<t>>
        ELSE <<SubSeq(t, 1, k - 1)>> \o Segments(SubSeq(t, k + 1, Len(t)), a)

RECURSIVE Join(_, _)
Join(segs, a) ==
    IF segs = <<>> THEN <<>>
    ELSE IF Len(segs) = 1 THEN segs[1]
    ELSE segs[1] \o <<a>> \o Join(Tail(segs), a)

-----------------------------------------------------------------------------
(* string.Formatter().parse and string.Template.substitute                 *)

\* the field name of a replacement field: the text before the first ":"
FieldName(text) ==
    LET c == IndexFrom(text, ":", 1)
    IN  IF c = 0 THEN text ELSE SubSeq(text, 1, c - 1)

\* [i[1] for i in Formatter().parse(s) if i[1] is not None], from index i
RECURSIVE FormatterKeys(_, _)
FormatterKeys(s, i) ==
    LET j == IndexFrom(s, "{", i)
        k == IF j = 0 THEN 0 ELSE IndexFrom(s, "}", j + 1)
    IN  IF j = 0 \/ k = 0 THEN <<>>
        ELSE <<FieldName(SubSeq(s, j + 1, k - 1))>> \o FormatterKeys(s, k + 1)

NotInIdentifier == {"$", "{", "}", "/", ":", "-", "."}

IsIdentifier(name) == name # <<>> /\ \A i \in 1..Len(name) : name[i] \notin NotInIdentifier

ThenText(prefix, r) == IF r.ok THEN Ok(prefix \o r.val) ELSE r

\* Template(s).substitute(**subs), from index i
RECURSIVE Substitute(_, _, _)
Substitute(s, subs, i) ==
    IF i > Len(s) THEN Ok(<<>>)
    ELSE IF s[i] # "$" THEN ThenText(<<s[i]>>, Substitute(s, subs, i + 1))
    ELSE IF i < Len(s) /\ s[i + 1] = "$" THEN ThenText(<<"$">>, Substitute(s, subs, i + 2))
    ELSE IF i < Len(s) /\ s[i + 1] = "{" THEN
        LET k == IndexFrom(s, "}", i + 2)
            name == SubSeq(s, i + 2, k - 1)
        IN  IF k = 0 \/ ~IsIdentifier(name)
            THEN Raise("ValueError", <<"Invalid placeholder in string">>)
            ELSE IF name \notin DOMAIN subs THEN Raise("KeyError", name)
            ELSE ThenText(PyStr(subs[name]), Substitute(s, subs, k + 1))
    ELSE IF i < Len(s) /\ IsIdentifier(<<s[i + 1]>>) THEN
        IF <<s[i + 1]>> \notin DOMAIN subs THEN Raise("KeyError", <<s[i + 1]>>)
        ELSE ThenText(PyStr(subs[<<s[i + 1]>>]), Substitute(s, subs, i + 2))
    ELSE Raise("ValueError", <<"Invalid placeholder in string">>)

-----------------------------------------------------------------------------
(* dateutil.parser.parse on an ISO-8601 text whose date part is ten atoms  *)
(* d d d d - d d - d d; anything else is unparsable.                       *)

Digits == {"0", "1", "2", "3", "4", "5", "6", "7", "8", "9"}

DigitVal(a) == CHOOSE d \in 0..9 : ToString(d) = a

dateparse(text) ==
    IF /\ Len(text) >= 10
       /\ \A i \in {1, 2, 3, 4, 6, 7, 9, 10} : text[i] \in Digits
       /\ text[5] = "-" /\ text[8] = "-"
    THEN Ok([year  |-> 1000 * DigitVal(text[1]) + 100 * DigitVal(text[2])
                       + 10 * DigitVal(text[3]) + DigitVal(text[4]),
             month |-> 10 * DigitVal(text[6]) + DigitVal(text[7]),
             day   |-> 10 * DigitVal(text[9]) + DigitVal(text[10])])
    ELSE Raise("ParserError", <<"Unknown string format: ">> \o text)

-----------------------------------------------------------------------------
(* Publish.get_path                                                        *)

\* SubsValue with a lenient lookup: an absent property gives the empty text
SubsValue_Lenient(item, key) ==
    IF key = <<"collection">> THEN Ok(PStr(DictGet(item, "collection", <<>>)))
    ELSE IF key = <<"id">> THEN Ok(PStr(DictGet(item, "id", <<>>)))
    ELSE IF key \in {<<"year">>, <<"month">>, <<"day">>} THEN
        IF <<"datetime">> \notin DOMAIN item.properties THEN Ok(PStr(<<>>))
        ELSE LET dt == dateparse(item.properties[<<"datetime">>].v)
             IN  IF ~dt.ok THEN dt ELSE Ok(PInt(dt.val[key[1]]))
    ELSE Ok(DictGet(item.properties, Replace(key, "__colon__", ":"), PStr(<<>>)))

\* one iteration of the loop of get_path: the value put into subs[key]
SubsValue(item, key) ==
    IF key = <<"collection">> THEN
        IF "collection" \in DOMAIN item THEN Ok(PStr(item.collection))
        ELSE Raise("KeyError", <<"collection">>)
    ELSE IF key = <<"id">> THEN
        IF "id" \in DOMAIN item THEN Ok(PStr(item.id))
        ELSE Raise("KeyError", <<"id">>)
    ELSE IF key \in {<<"year">>, <<"month">>, <<"day">>} THEN
        IF <<"datetime">> \notin DOMAIN item.properties THEN Raise("KeyError", <<"datetime">>)
        ELSE LET dt == dateparse(item.properties[<<"datetime">>].v)
             IN  IF ~dt.ok THEN dt ELSE Ok(PInt(dt.val[key[1]]))
    ELSE LET name == Replace(key, "__colon__", ":")
         IN  IF name \in DOMAIN item.properties THEN Ok(item.properties[name])
             ELSE Raise("KeyError", name)

RECURSIVE BuildSubs(_, _, _)
BuildSubs(item, keys, subs) ==
    IF keys = <<>> THEN Ok(subs)
    ELSE LET r == SubsValue(item, Head(keys))
         IN  IF r.ok THEN BuildSubs(item, Tail(keys), DictPut(subs, Head(keys), r.val))
             ELSE r

\* get_path without the escape of ":" around Formatter and Template
get_path_NoEscape(item, template) ==
    IF template.t # "str"
    THEN Raise("AttributeError", <<"'dict' object has no attribute 'replace'">>)
    ELSE LET subs == BuildSubs(item, FormatterKeys(RStrip(template.v, "/"), 1), EmptyDict)
         IN  IF ~subs.ok THEN subs ELSE Substitute(template.v, subs.val, 1)

get_path(item, template) ==
    IF template.t # "str"
    THEN Raise("AttributeError", <<"'dict' object has no attribute 'replace'">>)
    ELSE LET _template == Replace(template.v, ":", "__colon__")
             subs == BuildSubs(item, FormatterKeys(RStrip(_template, "/"), 1), EmptyDict)
         IN  IF ~subs.ok THEN subs
             ELSE LET r == Substitute(_template, subs.val, 1)
                  IN  IF r.ok THEN Ok(Replace(r.val, "__colon__", ":")) ELSE r

-----------------------------------------------------------------------------
(* os.path.join, boto3utils.s3 URL helpers                                 *)

\* os.path.join(a, b)
PathJoin(a, b) ==
    IF b # <<>> /\ Head(b) = "/" THEN b
    ELSE IF a = <<>> \/ a[Len(a)] = "/" THEN a \o b
    ELSE a \o <<"/">> \o b

S3Scheme == <<"s3", ":", "/", "/">>

HttpsScheme == <<"https", ":", "/", "/">>

\* SWOOP_DATA_BUCKET and AWS_DEFAULT_REGION of the container
DATA_BUCKET == "bucket"

AWS_DEFAULT_REGION == "us-east-1"

\* s3.https_to_s3(url): the bucket is the first label of the host name
https_to_s3(url) ==
    LET rest == SubSeq(url, Len(HttpsScheme) + 1, Len(url))
        k == IndexFrom(rest, "/", 1)
    IN  S3Scheme \o <<rest[1]>> \o (IF k = 0 THEN <<>> ELSE SubSeq(rest, k, Len(rest)))

\* s3.urlparse(url): bucket and key, the empty path segments dropped
urlparse(url) ==
    LET _url == IF Head(url) = "https" THEN https_to_s3(url) ELSE url
        url_obj == Segments(SubSeq(_url, Len(S3Scheme) + 1, Len(_url)), "/")
    IN  [bucket |-> url_obj[1], key |-> Join(Tail(url_obj), "/")]

\* s3.s3_to_https(url)
s3_to_https(url) ==
    LET parts == urlparse(url)
    IN  HttpsScheme \o parts.bucket \o <<".s3.", AWS_DEFAULT_REGION, ".amazonaws.com", "/">>
            \o parts.key

\* the object of the store that a URL addresses
StoreKey(url) == LET parts == urlparse(url) IN parts.bucket \o <<"/">> \o parts.key

-----------------------------------------------------------------------------
(* Publish.update_links                                                    *)

NewLink(rel, url) == [rel |-> rel, href |-> url, type |-> "application/json"]

\* line 80: the path of the item below the bucket
ItemPath(item, template) ==
    LET p == get_path(item, template)
    IN  IF ~p.ok THEN p
        ELSE IF "id" \notin DOMAIN item THEN Raise("KeyError", <<"id">>)
        ELSE Ok(PathJoin(p.val, item.id \o <<".json">>))

\* FullUrl that leaves the URL in its s3:// form whatever public is
FullUrl_NeverHttps(path, bucket, public) ==
    IF StartsWith(path, S3Scheme) THEN path
    ELSE S3Scheme \o <<bucket, "/">> \o LStrip(path, "/")

\* lines 82-85: the full URL of a path
FullUrl(path, bucket, public) ==
    LET s3url == IF StartsWith(path, S3Scheme) THEN path
                 ELSE S3Scheme \o <<bucket, "/">> \o LStrip(path, "/")
    IN  IF public THEN s3_to_https(s3url) ELSE s3url

\* RewriteLinks that removes the self links only
RewriteLinks_SelfOnly(links, url) ==
    <<NewLink("self", url), NewLink("canonical", url)>>
        \o SelectSeq(links, LAMBDA link : link.rel # "self")

\* RewriteLinks that removes nothing
RewriteLinks_KeepAll(links, url) ==
    <<NewLink("self", url), NewLink("canonical", url)>> \o links

\* RewriteLinks that puts the canonical link before the self link
RewriteLinks_CanonicalFirst(links, url) ==
    <<NewLink("canonical", url), NewLink("self", url)>>
        \o SelectSeq(links, LAMBDA link : link.rel \notin {"self", "canonical"})

\* lines 88-96: the links of the item once rewritten for url
RewriteLinks(links, url) ==
    <<NewLink("self", url), NewLink("canonical", url)>>
        \o SelectSeq(links, LAMBDA link : link.rel \notin {"self", "canonical"})

update_links(item, template, bucket, public) ==
    LET p == ItemPath(item, template)
    IN  IF ~p.ok THEN p
        ELSE LET url == FullUrl(p.val, bucket, public)
             IN  Ok([item |-> [item EXCEPT !.links = RewriteLinks(item.links, url)],
                     url  |-> url])

-----------------------------------------------------------------------------
(* Publish.update_item_dates, given what the store answered                *)

PNone == [t |-> "none", v |-> <<>>]

\* update_item_dates that never adopts the created of the object read
update_item_dates_Reset(item, old, now) ==
    [item EXCEPT !.properties =
        DictPut(DictPut(item.properties, <<"created">>, PIso(now)), <<"updated">>, PIso(now))]

\* update_item_dates that keeps a created the incoming item carries
update_item_dates_KeepOwn(item, old, now) ==
    LET found == IF old.t = "none" THEN DictGet(item.properties, <<"created">>, PNone)
                 ELSE DictGet(old.v.properties, <<"created">>, PNone)
        created == IF found.t = "none" THEN PIso(now) ELSE found
    IN  [item EXCEPT !.properties =
            DictPut(DictPut(item.properties, <<"created">>, created),
                    <<"updated">>, PIso(now))]

\* update_item_dates that builds properties anew from the two dates
update_item_dates_OnlyDates(item, old, now) ==
    LET found == IF old.t = "none" THEN PNone
                 ELSE DictGet(old.v.properties, <<"created">>, PNone)
        created == IF found.t = "none" THEN PIso(now) ELSE found
    IN  [item EXCEPT !.properties =
            DictPut(DictPut(EmptyDict, <<"created">>, created), <<"updated">>, PIso(now))]

\* update_item_dates that keeps an updated the incoming item carries
update_item_dates_KeepUpdated(item, old, now) ==
    LET found == IF old.t = "none" THEN PNone
                 ELSE DictGet(old.v.properties, <<"created">>, PNone)
        created == IF found.t = "none" THEN PIso(now) ELSE found
    IN  [item EXCEPT !.properties =
            DictPut(DictPut(item.properties, <<"created">>, created),
                    <<"updated">>, DictGet(item.properties, <<"updated">>, PIso(now)))]

\* old is PNone when s3session.exists(url) was False, else the object read
update_item_dates(item, old, now) ==
    LET found == IF old.t = "none" THEN PNone
                 ELSE DictGet(old.v.properties, <<"created">>, PNone)
        created == IF found.t = "none" THEN PIso(now) ELSE found
    IN  [item EXCEPT !.properties =
            DictPut(DictPut(item.properties, <<"created">>, created),
                    <<"updated">>, PIso(now))]

\* UploadExtra in which the default overlays the configured headers
UploadExtra_DefaultWins(headers) == DictUpdate(headers, [ContentType |-> "application/json"])

\* lines 135-136: the extra arguments of the upload
UploadExtra(headers) == DictUpdate([ContentType |-> "application/json"], headers)

\* line 180: the message of the exception of a failed validation
ValidationMessage(message) ==
    <<"STAC Item validation failed. Error: ">> \o message[1].error_message \o <<".">>

-----------------------------------------------------------------------------
(* Inputs: path templates, items, payloads, what the store holds before    *)
(* the task runs, and what the validator can answer.                       *)

\* Bounds of the model: the longest batch, and the instants the clock can
\* show while the task runs (1..MaxClock; instant 0 is before it ran).
MaxBatch == 2

MaxClock == 2

Var(name) == [var |-> TRUE, text |-> name]

Lit(text) == [var |-> FALSE, text |-> text]

\* the text of a template given as literals and ${name} placeholders
RECURSIVE TemplateText(_)
TemplateText(tokens) ==
    IF tokens = <<>> THEN <<>>
    ELSE (IF Head(tokens).var THEN <<"$", "{">> \o Head(tokens).text \o <<"}">>
          ELSE Head(tokens).text) \o TemplateText(Tail(tokens))

CloudCover == <<"eo", ":", "cloud_cover">>

Slash == Lit(<<"/">>)

\* ${collection}/${id}, the documented default
TDefault == <<Var(<<"collection">>), Slash, Var(<<"id">>)>>

Templates ==
    { TDefault,
      TDefault \o <<Slash>>,
      <<Var(<<"collection">>), Slash, Slash>>,
      <<Var(<<"year">>), Slash, Var(<<"month">>), Slash, Var(<<"day">>), Slash, Var(<<"id">>)>>,
      <<Var(<<"collection">>), Slash, Var(CloudCover)>>,
      <<Slash, Lit(<<"data">>), Slash, Var(<<"id">>)>>,
      <<Lit(S3Scheme \o <<"archive", "/">>), Var(<<"collection">>)>>,
      <<>> }

Datetime0305 == PStr(<<"2", "0", "2", "1", "-", "0", "3", "-", "0", "5", "T00:00:00Z">>)

OtherLink(rel) == [rel |-> rel, href |-> <<"https", ":", "/", "/", "example.com", "/", rel>>,
                   type |-> "application/json"]

OldLink(rel) == [rel |-> rel, href |-> <<"file", ":", "/", "/", "tmp", "/", "item.json">>,
                 type |-> "application/geo+json"]

\* a complete item, with several self links and a canonical link of its own
ItemA ==
    [collection |-> <<"landsat">>, id |-> <<"scene001">>,
     properties |-> DictPut(DictPut(EmptyDict, <<"datetime">>, Datetime0305), CloudCover, PInt(10)),
     links |-> <<OldLink("self"), OtherLink("root"), OldLink("canonical"), OldLink("self"),
                 OtherLink("parent")>>]

\* an item without eo:cloud_cover, as a run at instant 0 with the default
\* template returned it: it comes with created, updated and rewritten links
UrlB == S3Scheme \o <<DATA_BUCKET, "/", "landsat", "/", "x", "/", "x", ".json">>

ItemB ==
    [collection |-> <<"landsat">>, id |-> <<"x">>,
     properties |-> DictPut(DictPut(DictPut(EmptyDict, <<"datetime">>, Datetime0305),
                                    <<"created">>, PIso(0)), <<"updated">>, PIso(0)),
     links |-> <<NewLink("self", UrlB), NewLink("canonical", UrlB), OtherLink("root")>>]

\* an item without collection whose datetime cannot be parsed
ItemC ==
    [id |-> <<"y">>,
     properties |-> DictPut(EmptyDict, <<"datetime">>, PStr(<<"yesterday">>)),
     links |-> <<>>]

\* an item without id and without datetime
ItemD ==
    [collection |-> <<"landsat">>,
     properties |-> EmptyDict,
     links |-> <<OldLink("canonical")>>]

Items == {ItemA, ItemB, ItemC, ItemD}

Batches == UNION {[1..n -> Items] : n \in 0..MaxBatch}

\* upload_options of the payload: with and without path_template and headers
UploadOptions ==
    {EmptyDict}
    \cup {[path_template |-> PStr(TemplateText(t))] : t \in Templates}
    \cup {[path_template |-> PStr(TemplateText(TDefault)), headers |-> h] :
            h \in {[CacheControl |-> "no-cache"],
                   [ContentType |-> "application/geo+json", CacheControl |-> "no-cache"]}}

\* the options of the publish task in the payload
PublishConfigs ==
    {EmptyDict, [public |-> TRUE], [stac_validate |-> FALSE],
     [public |-> TRUE, stac_validate |-> FALSE]}

Payloads == [upload_options : UploadOptions, publish : PublishConfigs]

\* the object a run before instant 1 left at the place of ItemA under the
\* default template, with and without properties.created
PriorKey == StoreKey(S3Scheme \o <<DATA_BUCKET, "/", "landsat", "/", "scene001", "/",
                                   "scene001", ".json">>)

PriorObject(props) == [collection |-> <<"landsat">>, id |-> <<"scene001">>,
                       properties |-> props, links |-> <<>>]

InitialStores ==
    { EmptyDict,
      DictPut(EmptyDict, PriorKey,
              PriorObject(DictPut(DictPut(EmptyDict, <<"created">>, PIso(0)),
                                  <<"updated">>, PIso(0)))),
      DictPut(EmptyDict, PriorKey, PriorObject(DictPut(EmptyDict, <<"updated">>, PIso(0)))) }

\* stac.message after a failed validate_dict
ValidatorMessages ==
    { <<[error_message |-> <<"'type' is a required property">>]>>,
      <<[error_message |-> <<"-91 is less than the minimum of -90">>],
        [error_message |-> <<"'links' is a required property">>]>> }

\* what a failing call of the store raises
StoreFailure == [type |-> "ClientError", msg |-> <<"An error occurred (403)">>]

-----------------------------------------------------------------------------
(* State                                                                   *)

VARIABLES
    store,      \* the bucket objects: store key -> item
    payload,    \* self._payload
    input,      \* the items of the payload as the task received them
    items,      \* self.items_as_dicts, mutated in place
    mod_items,  \* process: mod_items
    pc,         \* where process is
    idx,        \* the index in items of the item of the loop
    url,        \* process: url
    err,        \* the exception process raised
    result,     \* what process returned
    calls,      \* the calls of s3session made by this run, in order
    verdicts    \* the answers of stac.validate_dict in this run, in order

vars == <<store, payload, input, items, mod_items, pc, idx, url, err, result, calls, verdicts>>

\* lines 154-159
path_template == DictGet(payload.upload_options, "path_template", PDict)

headers == DictGet(payload.upload_options, "headers", EmptyDict)

public == DictGet(payload.publish, "public", FALSE)

stac_validate == DictGet(payload.publish, "stac_validate", TRUE)

None == <<"None">>

Init ==
    /\ store \in InitialStores
    /\ payload = [upload_options |-> EmptyDict, publish |-> EmptyDict]
    /\ input = <<>>
    /\ items = <<>>
    /\ mod_items = <<>>
    /\ pc = "idle"
    /\ idx = 0
    /\ url = <<>>
    /\ err = NoErr
    /\ result = None
    /\ calls = <<>>
    /\ verdicts = <<>>

\* lines 142-170: process starts on a payload and a batch
Start(p, batch) ==
    /\ payload' = p
    /\ input' = batch
    /\ items' = batch
    /\ mod_items' = <<>>
    /\ idx' = 1
    /\ url' = <<>>
    /\ err' = NoErr
    /\ calls' = <<>>
    /\ verdicts' = <<>>
    /\ IF batch = <<>>
       THEN pc' = "returned" /\ result' = <<>>
       ELSE pc' = "links" /\ result' = None
    /\ UNCHANGED store

\* the task is run on a payload
Invoke ==
    /\ pc = "idle"
    /\ \E p \in Payloads, batch \in Batches : Start(p, batch)

\* lines 186-189: the exception is logged and raised again
Raises(e) ==
    /\ err' = e
    /\ pc' = "raised"

\* lines 171-173
UpdateLinks ==
    /\ pc = "links"
    /\ LET r == update_links(items[idx], path_template, DATA_BUCKET, public)
       IN  IF r.ok
           THEN /\ items' = [items EXCEPT ![idx] = r.val.item]
                /\ url' = r.val.url
                /\ pc' = "dates"
                /\ UNCHANGED err
           ELSE /\ Raises(r.err)
                /\ UNCHANGED <<items, url>>
    /\ UNCHANGED <<store, payload, input, mod_items, idx, result, calls, verdicts>>

\* a call of s3session and whether it returned (ok) or raised
Call(op, u, ok) == [op |-> op, url |-> u, ok |-> ok]

\* ExistsFails that takes the failure for "no such object" and goes on
ExistsFails_AsAbsent ==
    /\ pc = "dates"
    /\ calls' = Append(calls, Call("exists", url, FALSE))
    /\ \E now \in 1..MaxClock :
        LET mod_item == update_item_dates(items[idx], PNone, now)
        IN  /\ items' = [items EXCEPT ![idx] = mod_item]
            /\ mod_items' = Append(mod_items, mod_item)
    /\ pc' = "validate"
    /\ UNCHANGED <<store, payload, input, idx, url, err, result, verdicts>>

\* lines 175-177, s3session.exists raising
ExistsFails ==
    /\ pc = "dates"
    /\ calls' = Append(calls, Call("exists", url, FALSE))
    /\ Raises(StoreFailure)
    /\ UNCHANGED <<store, payload, input, items, mod_items, idx, url, result, verdicts>>

\* lines 175-177, s3session.read_json raising
ReadFails ==
    /\ pc = "dates"
    /\ StoreKey(url) \in DOMAIN store
    /\ calls' = calls \o <<Call("exists", url, TRUE), Call("read_json", url, FALSE)>>
    /\ Raises(StoreFailure)
    /\ UNCHANGED <<store, payload, input, items, mod_items, idx, url, result, verdicts>>

\* UpdateItemDates that remembers, for the rest of the run, that a URL held
\* no object when it was first checked
UpdateItemDates_Cached ==
    /\ pc = "dates"
    /\ \E now \in 1..MaxClock :
        LET absent == \E i \in 1..Len(calls) :
                          /\ calls[i] = Call("exists", url, TRUE)
                          /\ calls[i + 1].op # "read_json"
            present == StoreKey(url) \in DOMAIN store /\ ~absent
            old == IF present THEN [t |-> "item", v |-> store[StoreKey(url)]] ELSE PNone
            mod_item == update_item_dates(items[idx], old, now)
        IN  /\ calls' = calls \o <<Call("exists", url, TRUE)>>
                          \o (IF present THEN <<Call("read_json", url, TRUE)>> ELSE <<>>)
            /\ items' = [items EXCEPT ![idx] = mod_item]
            /\ mod_items' = Append(mod_items, mod_item)
    /\ pc' = "validate"
    /\ UNCHANGED <<store, payload, input, idx, url, err, result, verdicts>>

\* lines 175-177, the store answering
UpdateItemDates ==
    /\ pc = "dates"
    /\ \E now \in 1..MaxClock :
        LET present == StoreKey(url) \in DOMAIN store
            old == IF present THEN [t |-> "item", v |-> store[StoreKey(url)]] ELSE PNone
            mod_item == update_item_dates(items[idx], old, now)
        IN  /\ calls' = calls \o <<Call("exists", url, TRUE)>>
                          \o (IF present THEN <<Call("read_json", url, TRUE)>> ELSE <<>>)
            /\ items' = [items EXCEPT ![idx] = mod_item]
            /\ mod_items' = Append(mod_items, mod_item)
    /\ pc' = "validate"
    /\ UNCHANGED <<store, payload, input, idx, url, err, result, verdicts>>

\* what stac.validate_dict answered for the item at index i, and stac.message
Verdict(i, valid, message) == [item |-> i, valid |-> valid, message |-> message]

\* line 178, the item is valid or validation is off
ValidatePasses ==
    /\ pc = "validate"
    /\ verdicts' = IF stac_validate THEN Append(verdicts, Verdict(idx, TRUE, <<>>))
                   ELSE verdicts
    /\ pc' = "publish"
    /\ UNCHANGED <<store, payload, input, items, mod_items, idx, url, err, result, calls>>

\* ValidateFails that only notes the rejection and publishes the item
ValidateFails_Continue ==
    /\ pc = "validate"
    /\ stac_validate
    /\ \E message \in ValidatorMessages :
        verdicts' = Append(verdicts, Verdict(idx, FALSE, message))
    /\ pc' = "publish"
    /\ UNCHANGED <<store, payload, input, items, mod_items, idx, url, err, result, calls>>

\* lines 178-181, the validator rejects the item
ValidateFails ==
    /\ pc = "validate"
    /\ stac_validate
    /\ \E message \in ValidatorMessages :
        /\ verdicts' = Append(verdicts, Verdict(idx, FALSE, message))
        /\ Raises([type |-> "Exception", msg |-> ValidationMessage(message)])
    /\ UNCHANGED <<store, payload, input, items, mod_items, idx, url, result, calls>>

\* Upload that addresses the write with the s3:// form of an HTTPS URL
Upload_S3Addressed(item, u, ok) ==
    [op |-> "upload_json", url |-> IF Head(u) = "https" THEN https_to_s3(u) ELSE u,
     ok |-> ok, item |-> item, public |-> public, extra |-> UploadExtra(headers)]

\* the call of line 137
Upload(item, u, ok) ==
    [op |-> "upload_json", url |-> u, ok |-> ok, item |-> item, public |-> public,
     extra |-> UploadExtra(headers)]

\* PublishItem that uploads the record as update_links left it, with the
\* properties it had before update_item_dates
PublishItem_Unreconciled ==
    /\ pc = "publish"
    /\ LET link_item == [items[idx] EXCEPT !.properties = input[idx].properties]
       IN  /\ calls' = Append(calls, Upload(link_item, url, TRUE))
           /\ store' = DictPut(store, StoreKey(url), link_item)
    /\ IF idx = Len(items)
       THEN pc' = "returned" /\ result' = mod_items /\ UNCHANGED idx
       ELSE pc' = "links" /\ idx' = idx + 1 /\ UNCHANGED result
    /\ UNCHANGED <<payload, input, items, mod_items, url, err, verdicts>>

\* lines 182-184, publish_item_to_s3 and the end of the loop
PublishItem ==
    /\ pc = "publish"
    /\ calls' = Append(calls, Upload(items[idx], url, TRUE))
    /\ store' = DictPut(store, StoreKey(url), items[idx])
    /\ IF idx = Len(items)
       THEN pc' = "returned" /\ result' = mod_items /\ UNCHANGED idx
       ELSE pc' = "links" /\ idx' = idx + 1 /\ UNCHANGED result
    /\ UNCHANGED <<payload, input, items, mod_items, url, err, verdicts>>

\* line 182, s3session.upload_json raising
UploadFails ==
    /\ pc = "publish"
    /\ calls' = Append(calls, Upload(items[idx], url, FALSE))
    /\ Raises(StoreFailure)
    /\ UNCHANGED <<store, payload, input, items, mod_items, idx, url, result, verdicts>>

Next ==
    \/ Invoke
    \/ UpdateLinks
    \/ ExistsFails
    \/ ReadFails
    \/ UpdateItemDates
    \/ ValidatePasses
    \/ ValidateFails
    \/ PublishItem
    \/ UploadFails

Spec == Init /\ [][Next]_vars

-----------------------------------------------------------------------------
(* Properties                                                              *)

Last(s) == s[Len(s)]

\* the uploads of this run, and those that succeeded
Uploads == SelectSeq(calls, LAMBDA c : c.op = "upload_json")

Writes == SelectSeq(calls, LAMBDA c : c.op = "upload_json" /\ c.ok)

ExistsCalls == SelectSeq(calls, LAMBDA c : c.op = "exists")

\* the last write of this run to the object that write j went to
LastWriteTo(j) ==
    CHOOSE m \in j..Len(Writes) :
        /\ StoreKey(Writes[m].url) = StoreKey(Writes[j].url)
        /\ \A q \in (m + 1)..Len(Writes) : StoreKey(Writes[q].url) # StoreKey(Writes[j].url)

HasCreated(obj) ==
    /\ <<"created">> \in DOMAIN obj.properties
    /\ obj.properties[<<"created">>].t # "none"

Created(obj) == obj.properties[<<"created">>]

Updated(obj) == obj.properties[<<"updated">>]

\* process has taken the item at index j into the loop and is past update_links
Reached(j) == pc # "idle" /\ (j < idx \/ (j = idx /\ pc # "links"))

\* C1: with stac_validate on, when record k is the first record the validator
\* rejects, the call has raised and returned nothing, exactly the records
\* 1..k-1 were uploaded, each as it stands in the batch, the store still
\* holds them, and no upload was attempted for records k..n.
C1_FailFast ==
    \A k \in 1..Len(verdicts) :
        ~verdicts[k].valid =>
            /\ verdicts[k].item = k
            /\ pc = "raised" /\ result = None /\ err.type = "Exception"
            /\ Len(Uploads) = k - 1 /\ Len(Writes) = k - 1
            /\ \A j \in 1..(k - 1) :
                /\ Writes[j].item = items[j]
                /\ StoreKey(Writes[j].url) \in DOMAIN store
                /\ store[StoreKey(Writes[j].url)] = Writes[LastWriteTo(j)].item

\* record 2 of 2 was rejected after record 1 was written
C1_Witness ==
    /\ pc = "raised" /\ Len(items) = 2
    /\ Len(verdicts) = 2 /\ ~verdicts[2].valid
    /\ Len(Writes) = 1 /\ store[StoreKey(Writes[1].url)] = items[1]

\* C2: once an object with properties.created is stored at a place, every
\* step leaves an object there whose properties.created is that same value,
\* whatever instant the publish took place at.
C2_CreatedPreserved ==
    [][\A key \in DOMAIN store :
          HasCreated(store[key]) =>
              /\ key \in DOMAIN store'
              /\ HasCreated(store'[key])
              /\ Created(store'[key]) = Created(store[key])]_vars

\* two publishes to one place, the second at an earlier clock reading than
\* the first: created stays at the first instant, updated moves
C2_Witness ==
    /\ Len(Writes) = 2
    /\ StoreKey(Writes[1].url) = StoreKey(Writes[2].url)
    /\ Created(Writes[1].item) = PIso(2) /\ Created(Writes[2].item) = PIso(2)
    /\ Updated(Writes[2].item) = PIso(1)
    /\ store[StoreKey(Writes[2].url)] = Writes[2].item

\* C3: after update_item_dates for a place that holds no object, or an
\* object without properties.created, the item's created and updated are
\* equal and are an instant of this run, whatever the item carried before.
C3_FreshPublish ==
    (/\ pc = "validate"
     /\ (StoreKey(url) \notin DOMAIN store \/ ~HasCreated(store[StoreKey(url)])))
        => /\ Created(items[idx]) = Updated(items[idx])
           /\ \E now \in 1..MaxClock : Created(items[idx]) = PIso(now)
           /\ Last(mod_items) = items[idx]

\* the item that carried created = updated = instant 0 gets instant 2
C3_Witness ==
    /\ pc = "validate"
    /\ input[idx] = ItemB
    /\ StoreKey(url) \notin DOMAIN store
    /\ Created(items[idx]) = PIso(2) /\ Updated(items[idx]) = PIso(2)

\* C4: a step in which s3session.exists or s3session.read_json raises ends
\* process with that error, changes no object of the store, and nothing
\* happens after it (no step leaves the state in which process has raised).
C4_ReadFailureAborts ==
    [][/\ pc # "raised"
       /\ (/\ Len(calls') > Len(calls)
           /\ Last(calls').op \in {"exists", "read_json"}
           /\ ~Last(calls').ok)
            => /\ pc' = "raised"
               /\ err' = StoreFailure
               /\ store' = store]_vars

\* exists raised for a place that holds an object with created
C4_Witness ==
    /\ pc = "raised"
    /\ calls # <<>> /\ Last(calls).op = "exists" /\ ~Last(calls).ok
    /\ StoreKey(url) \in DOMAIN store
    /\ HasCreated(store[StoreKey(url)])
    /\ err = StoreFailure

\* the template of the payload as literals and placeholders
TokensOf(text) == CHOOSE t \in Templates : TemplateText(t) = text

\* the field that placeholder name stands for is absent from the item
Absent(item, name) ==
    IF name = <<"collection">> THEN "collection" \notin DOMAIN item
    ELSE IF name = <<"id">> THEN "id" \notin DOMAIN item
    ELSE IF name \in {<<"year">>, <<"month">>, <<"day">>}
    THEN <<"datetime">> \notin DOMAIN item.properties
    ELSE name \notin DOMAIN item.properties

MissingField(item, tokens) ==
    \E i \in 1..Len(tokens) : tokens[i].var /\ Absent(item, tokens[i].text)

\* C5: when the template references a field that record j lacks, process
\* raises a KeyError at record j, and every call of the store made by the
\* run belongs to the records before j: j-1 existence checks, j-1 uploads,
\* the last call being the upload of record j-1.
C5_MissingFieldBeforeStore ==
    path_template.t = "str" =>
        \A j \in 1..Len(input) :
            (Reached(j) /\ MissingField(input[j], TokensOf(path_template.v))) =>
                /\ pc = "raised" /\ idx = j /\ err.type = "KeyError"
                /\ Len(ExistsCalls) = j - 1
                /\ Len(Uploads) = j - 1
                /\ calls # <<>> => (Last(calls).op = "upload_json" /\ Last(calls).ok)

\* record 2 lacks eo:cloud_cover, which the template references; record 1
\* was published
C5_Witness ==
    /\ pc = "raised" /\ idx = 2
    /\ path_template = PStr(TemplateText(<<Var(<<"collection">>), Slash, Var(CloudCover)>>))
    /\ input[2] = ItemB
    /\ err = [type |-> "KeyError", msg |-> CloudCover]
    /\ Len(Writes) = 1 /\ Len(calls) = 2

\* text occurs in msg
Contains(msg, text) ==
    \E i \in 1..(Len(msg) - Len(text) + 1) : SubSeq(msg, i, i + Len(text) - 1) = text

ValidationFailed == pc = "raised" /\ verdicts # <<>> /\ ~Last(verdicts).valid

\* C6: the error of every abort carries the identifier and the collection
\* of the failing record, and for a failed validation also the first
\* diagnostic message of the validator (stated for the runs whose payload
\* gives a path_template and the records that have both fields).
C6_AbortIdentifiesRecord ==
    (/\ pc = "raised"
     /\ "path_template" \in DOMAIN payload.upload_options
     /\ {"id", "collection"} \subseteq DOMAIN items[idx]) =>
        /\ Contains(err.msg, items[idx].id)
        /\ Contains(err.msg, items[idx].collection)
        /\ ValidationFailed => Contains(err.msg, Last(verdicts).message[1].error_message)

\* the place s3://<bucket>/c/i/i.json of a record (collection c, id i)
DefaultUrl(item) ==
    S3Scheme \o <<DATA_BUCKET, "/">> \o item.collection \o <<"/">> \o item.id
        \o <<"/">> \o item.id \o <<".json">>

\* C7: when upload_options holds no path_template, process
\* publishes as under ${collection}/${id}: it does not fail on the template,
\* every record it writes goes to s3://<bucket>/c/i/i.json, and a run over
\* records that all have collection and id writes every one of them unless
\* the store or the validator stops it.
C7_DefaultTemplate ==
    ("path_template" \notin DOMAIN payload.upload_options /\ pc # "idle") =>
        /\ err.type # "AttributeError"
        /\ \A j \in 1..Len(Writes) :
              StoreKey(Writes[j].url) = StoreKey(DefaultUrl(Writes[j].item))
        /\ pc = "returned" => Len(Writes) = Len(input)

\* update_links has rewritten the links of the item at index j
LinksDone(j) ==
    \/ pc # "idle" /\ j < idx
    \/ j = idx /\ pc \in {"dates", "validate", "publish", "returned"}
    \/ j = idx /\ pc = "raised" /\ Len(ExistsCalls) = idx

\* the URL update_links returned for the item at index j
UrlOf(j) == IF j = idx THEN url ELSE Writes[j].url

Others(links) == SelectSeq(links, LAMBDA link : link.rel \notin {"self", "canonical"})

Count(links, rel) == Cardinality({i \in 1..Len(links) : links[i].rel = rel})

\* C8: after update_links the links of a record hold exactly one self and
\* one canonical link, both with the URL of the record as href and type
\* application/json, and the other links of the input, unchanged and in
\* their order.
C8_LinkInvariant ==
    \A j \in 1..Len(items) :
        LinksDone(j) =>
            LET links == items[j].links
            IN  /\ Count(links, "self") = 1
                /\ Count(links, "canonical") = 1
                /\ \A i \in 1..Len(links) :
                      links[i].rel \in {"self", "canonical"} =>
                          links[i].href = UrlOf(j) /\ links[i].type = "application/json"
                /\ Others(links) = Others(input[j].links)

\* the item that came with two self links and a canonical link, rewritten
\* for the HTTPS form of its URL
C8_Witness ==
    /\ pc = "dates" /\ public
    /\ input[idx] = ItemA
    /\ Count(input[idx].links, "self") = 2
    /\ Len(items[idx].links) = 4
    /\ items[idx].links[3] = OtherLink("root") /\ items[idx].links[4] = OtherLink("parent")

\* C9: update_links applied to a record it has rewritten returns the same
\* URL and the same links; and a record that comes in as a publish returned
\* it (one self, one canonical link) leaves with as many links as it came.
C9_LinkIdempotent ==
    \A j \in 1..Len(items) :
        LinksDone(j) =>
            LET again == update_links(items[j], path_template, DATA_BUCKET, public)
            IN  /\ again.ok
                /\ again.val.url = UrlOf(j)
                /\ again.val.item.links = items[j].links
                /\ (Count(input[j].links, "self") = 1 /\ Count(input[j].links, "canonical") = 1)
                      => Len(items[j].links) = Len(input[j].links)

\* the item an earlier run returned is published again to the same URL and
\* keeps its three links
C9_Witness ==
    /\ pc = "publish"
    /\ input[idx] = ItemB
    /\ url = UrlB
    /\ items[idx].links = ItemB.links
    /\ Len(items[idx].links) = 3

DateNames == {<<"year">>, <<"month">>, <<"day">>}

\* year, month and day of 2021-03-05 written without zero padding
DateText == [year |-> <<"2021">>, month |-> <<"3">>, day |-> <<"5">>]

\* every placeholder of the template, and the id of the last segment, can be
\* resolved on the item
Resolvable(item, tokens) ==
    /\ "id" \in DOMAIN item
    /\ ~MissingField(item, tokens)
    /\ \A i \in 1..Len(tokens) :
          (tokens[i].var /\ tokens[i].text \in DateNames)
              => item.properties[<<"datetime">>] = Datetime0305

\* what the specification puts in the place of a token
TokenText(item, token) ==
    IF ~token.var THEN token.text
    ELSE IF token.text = <<"collection">> THEN item.collection
    ELSE IF token.text = <<"id">> THEN item.id
    ELSE IF token.text \in DateNames THEN DateText[token.text[1]]
    ELSE PyStr(item.properties[token.text])

RECURSIVE ExpectedDir(_, _)
ExpectedDir(item, tokens) ==
    IF tokens = <<>> THEN <<>>
    ELSE TokenText(item, Head(tokens)) \o ExpectedDir(item, Tail(tokens))

StripSlash(tokens) ==
    IF tokens # <<>> /\ Last(tokens) = Slash THEN SubSeq(tokens, 1, Len(tokens) - 1)
    ELSE tokens

\* the expected key: the template without one trailing slash, the
\* placeholders replaced, followed by /<id>.json
ExpectedKey(item, tokens) ==
    ExpectedDir(item, StripSlash(tokens)) \o <<"/">> \o item.id \o <<".json">>

Pick(s, kept) ==
    [k \in 1..Cardinality(kept) |->
        s[CHOOSE i \in kept : Cardinality({j \in kept : j < i}) = k - 1]]

\* s without its leading atoms a
DropLeading(s, a) ==
    Pick(s, {i \in 1..Len(s) : \E j \in 1..i : s[j] # a})

\* a key without its empty segments: of every run of slashes the first one
\* stays, unless the run begins or ends the key
Squeeze(s) ==
    Pick(s, {i \in 1..Len(s) :
                \/ s[i] # "/"
                \/ i > 1 /\ s[i - 1] # "/" /\ \E j \in (i + 1)..Len(s) : s[j] # "/"})

\* the s3:// URL of a path: the path itself when it begins with s3://, else
\* s3://<bucket>/<path without its leading slashes>
ExpectedS3(path) ==
    IF Len(path) >= 4 /\ SubSeq(path, 1, 4) = <<"s3", ":", "/", "/">> THEN path
    ELSE <<"s3", ":", "/", "/", DATA_BUCKET, "/">> \o DropLeading(path, "/")

\* the virtual-hosted HTTPS URL of the bucket and key of an s3:// URL
ExpectedHttps(s3url) ==
    <<"https", ":", "/", "/", s3url[5], ".s3.", AWS_DEFAULT_REGION, ".amazonaws.com", "/">>
        \o Squeeze(SubSeq(s3url, 7, Len(s3url)))

\* C11: the step of update_links that resolves a path leaves the URL
\* s3://<bucket>/<path> (the path itself when it begins with s3://) when
\* public is not set, and the HTTPS form of the same bucket and key when it
\* is set; the step makes no call of the store and changes no object.
C11_FullUrl ==
    [][(pc = "links" /\ pc' = "dates") =>
          LET path == ItemPath(items[idx], path_template).val
              s3url == ExpectedS3(path)
          IN  /\ ~public => url' = s3url
              /\ public => /\ url' = ExpectedHttps(s3url)
                           /\ StoreKey(url') = StoreKey(s3url)
              /\ calls' = calls
              /\ store' = store]_vars

\* a path that begins with s3:// and names another bucket, public set: the
\* URL is the HTTPS form for that bucket, and no call was made
C11_Witness ==
    /\ pc = "dates" /\ public
    /\ path_template = PStr(TemplateText(<<Lit(S3Scheme \o <<"archive", "/">>),
                                           Var(<<"collection">>)>>))
    /\ url = <<"https", ":", "/", "/", "archive", ".s3.", "us-east-1", ".amazonaws.com", "/",
               "landsat", "/", "scene001", ".json">>
    /\ Len(calls) = 0

\* the headers of upload_options as the payload gives them
ConfiguredHeaders ==
    IF "headers" \in DOMAIN payload.upload_options THEN payload.upload_options.headers
    ELSE EmptyDict

\* C12: every upload of the run, whether it succeeded or not, carries as
\* extra exactly the configured headers, each with its configured value, and
\* ContentType, which is application/json unless the configured headers
\* give a ContentType; and it carries the public flag of the run.
C12_HeaderMerge ==
    \A k \in 1..Len(Uploads) :
        LET c == Uploads[k]
        IN  /\ DOMAIN c.extra = {"ContentType"} \cup DOMAIN ConfiguredHeaders
            /\ \A h \in DOMAIN ConfiguredHeaders : c.extra[h] = ConfiguredHeaders[h]
            /\ "ContentType" \notin DOMAIN ConfiguredHeaders
                  => c.extra["ContentType"] = "application/json"
            /\ c.public = ("public" \in DOMAIN payload.publish /\ payload.publish.public)

\* a write under headers that give their own ContentType and a CacheControl
C12_Witness ==
    /\ Len(Writes) = 2
    /\ ConfiguredHeaders = [ContentType |-> "application/geo+json", CacheControl |-> "no-cache"]
    /\ Writes[2].extra = [ContentType |-> "application/geo+json", CacheControl |-> "no-cache"]
    /\ ~Writes[2].public

DateProperties == {<<"created">>, <<"updated">>}

\* C13: when process has returned, the result is as long as the batch it
\* received, and record j of the result is record j of the batch but for
\* links, properties.created and properties.updated: it has the same
\* fields, every field other than links and properties is unchanged (id
\* and collection among them), and properties holds the properties of the
\* input, unchanged, together with created and updated.
C13_Frame ==
    pc = "returned" =>
        /\ Len(result) = Len(input)
        /\ \A j \in 1..Len(input) :
              /\ DOMAIN result[j] = DOMAIN input[j]
              /\ \A f \in DOMAIN input[j] \ {"links", "properties"} :
                    result[j][f] = input[j][f]
              /\ DOMAIN result[j].properties = DOMAIN input[j].properties \cup DateProperties
              /\ \A p \in DOMAIN input[j].properties \ DateProperties :
                    result[j].properties[p] = input[j].properties[p]

\* a batch of two returned: the first record got new links and dates and
\* kept eo:cloud_cover, the second had its created and updated replaced
C13_Witness ==
    /\ pc = "returned" /\ Len(result) = 2
    /\ input = <<ItemA, ItemB>>
    /\ result[1].links # ItemA.links
    /\ result[1].properties[CloudCover] = PInt(10)
    /\ result[1].id = <<"scene001">> /\ result[2].id = <<"x">>
    /\ Created(result[2]) # Created(ItemB)

\* the step of process that writes the record of the loop to the store
Publishes == pc = "publish" /\ pc' \in {"links", "returned"}

HasUpdated(obj) == <<"updated">> \in DOMAIN obj.properties

\* C14 as stated: every write leaves at its place an object whose updated is
\* an instant of the run, and when the place held a version with an updated
\* before the write, the new updated is strictly greater than that one.
C14_UpdatedAdvances ==
    [][Publishes =>
          LET key == StoreKey(url)
          IN  /\ \E now \in 1..MaxClock : Updated(store'[key]) = PIso(now)
              /\ (key \in DOMAIN store /\ HasUpdated(store[key]))
                    => Updated(store'[key]).v > Updated(store[key]).v]_vars

\* C14, amended: every write leaves at its place the record of the loop,
\* whose updated is an instant read by the run (neither the updated the
\* record came with nor the one stored), equal to its created when the place
\* held no created; and the new updated is strictly greater than that of
\* the version it replaces when that version dates from before the run.
C14_UpdatedIsNow ==
    [][Publishes =>
          LET key == StoreKey(url)
              fresh == key \notin DOMAIN store \/ ~HasCreated(store[key])
          IN  /\ store'[key] = items[idx]
              /\ \E now \in 1..MaxClock :
                    /\ Updated(store'[key]) = PIso(now)
                    /\ fresh => Created(store'[key]) = PIso(now)
              /\ (key \in DOMAIN store /\ HasUpdated(store[key])
                    /\ Updated(store[key]).v < 1)
                    => Updated(store'[key]).v > Updated(store[key]).v]_vars

\* the record is published over the version of instant 0: created stays at
\* instant 0 and updated is the reading 2 of this publish
C14_Witness ==
    /\ Len(Writes) = 1
    /\ input[1] = ItemA
    /\ StoreKey(Writes[1].url) = PriorKey
    /\ Created(store[PriorKey]) = PIso(0)
    /\ Updated(store[PriorKey]) = PIso(2)

\* the links from the third on
Rest(links) == SubSeq(links, 3, Len(links))

\* C15 as stated: after update_links the first link of a record is its
\* canonical link, the second its self link, and the rest are the other
\* links of the input in their order.
C15_CanonicalFirst ==
    \A j \in 1..Len(items) :
        LinksDone(j) =>
            /\ items[j].links[1] = NewLink("canonical", UrlOf(j))
            /\ items[j].links[2] = NewLink("self", UrlOf(j))
            /\ Rest(items[j].links) = Others(input[j].links)

\* C15, amended: after update_links the first link of a record is its self
\* link, the second its canonical link, and the rest are the other links of
\* the input in their order.
C15_SelfFirst ==
    \A j \in 1..Len(items) :
        LinksDone(j) =>
            /\ Len(items[j].links) = 2 + Len(Others(input[j].links))
            /\ items[j].links[1] = NewLink("self", UrlOf(j))
            /\ items[j].links[2] = NewLink("canonical", UrlOf(j))
            /\ Rest(items[j].links) = Others(input[j].links)

\* the record that came with self, root, canonical, self, parent leaves
\* update_links with self, canonical, root, parent
C15_Witness ==
    /\ pc = "dates" /\ ~public
    /\ input[idx] = ItemA
    /\ items[idx].links = <<NewLink("self", url), NewLink("canonical", url),
                            OtherLink("root"), OtherLink("parent")>>

\* C16: every record for which the store answers makes its own existence
\* check on its URL, and a read exactly when the store holds an object
\* there at that moment, the writes of the earlier records of the batch
\* included; it adopts the created of that object, and takes that of its
\* own publish when there is none.  So a record that resolves to the URL
\* of an earlier record of the batch leaves with that record's created.
C16_NoCaching ==
    [][(pc = "dates" /\ pc' = "validate") =>
            LET key == StoreKey(url)
                n == Len(calls)
            IN  /\ Len(calls') > n
                /\ calls'[n + 1] = Call("exists", url, TRUE)
                /\ key \in DOMAIN store =>
                      /\ Len(calls') = n + 2
                      /\ calls'[n + 2] = Call("read_json", url, TRUE)
                      /\ HasCreated(store[key])
                            => Created(items'[idx]) = Created(store[key])
                /\ (key \notin DOMAIN store \/ ~HasCreated(store[key])) =>
                      Created(items'[idx]) = Updated(items'[idx])
                /\ key \notin DOMAIN store => Len(calls') = n + 1
                /\ \A j \in 1..Len(Writes) :
                      StoreKey(Writes[j].url) = key
                          => Created(items'[idx]) = Created(Writes[j].item)]_vars

\* nothing was stored; two records of the batch went to one URL: the first
\* made no read, the second read the first's object and has its created,
\* with an updated of its own
C16_Witness ==
    /\ Len(Writes) = 2 /\ Len(calls) = 5
    /\ calls[1].op = "exists" /\ calls[2].op = "upload_json"
    /\ calls[3].op = "exists" /\ calls[4].op = "read_json" /\ calls[5].op = "upload_json"
    /\ calls[4].url = calls[1].url
    /\ Created(Writes[1].item) = PIso(1) /\ Created(Writes[2].item) = PIso(1)
    /\ Updated(Writes[2].item) = PIso(2)

\* no write of the run after write j went to the place of write j
LastAtItsPlace(j) ==
    \A k \in (j + 1)..Len(Writes) : StoreKey(Writes[k].url) # StoreKey(Writes[j].url)

\* the object has the self and canonical links of the URL and both dates
Reconciled(obj, u) ==
    /\ Count(obj.links, "self") = 1 /\ Count(obj.links, "canonical") = 1
    /\ \A i \in 1..Len(obj.links) :
          obj.links[i].rel \in {"self", "canonical"} => obj.links[i].href = u
    /\ HasCreated(obj) /\ HasUpdated(obj)

\* C17: every object the run has written has the rewritten links and both
\* dates, and the store holds at its place the object of the last write
\* that went there; when process has returned, every record was written,
\* and for every record whose place no later record of the batch shares
\* the object stored at its URL is the record of the result.
C17_StoredEqualsReturned ==
    /\ \A j \in 1..Len(Writes) :
          /\ Reconciled(Writes[j].item, Writes[j].url)
          /\ StoreKey(Writes[j].url) \in DOMAIN store
          /\ Reconciled(store[StoreKey(Writes[j].url)], Writes[j].url)
    /\ pc = "returned" =>
          /\ Len(Writes) = Len(result)
          /\ \A j \in 1..Len(result) :
                LastAtItsPlace(j) => store[StoreKey(Writes[j].url)] = result[j]

\* a batch of two returned under public: both records are stored as they
\* were returned, each at its own place
C17_Witness ==
    /\ pc = "returned" /\ public /\ Len(result) = 2
    /\ input = <<ItemA, ItemB>>
    /\ StoreKey(Writes[1].url) # StoreKey(Writes[2].url)
    /\ store[StoreKey(Writes[1].url)] = result[1]
    /\ store[StoreKey(Writes[2].url)] = result[2]
    /\ result[1].links[1] = NewLink("self", Writes[1].url)
    /\ Updated(result[1]) = PIso(1) /\ Updated(result[2]) = PIso(2)

\* the index in the batch of the record that made call i: every record
\* begins its calls with the existence check
RecordOf(i) == Cardinality({m \in 1..i : calls[m].op = "exists"})

Href(links, rel) == links[CHOOSE i \in 1..Len(links) : links[i].rel = rel].href

\* C18: every call of the store a record makes (existence check, read of
\* the prior version, write) is addressed with the href of the record's
\* self link, which is also the href of its canonical link; under public
\* this URL is the HTTPS form, otherwise the s3:// form.
C18_OneUrl ==
    \A i \in 1..Len(calls) :
        LET j == RecordOf(i)
        IN  /\ j \in 1..Len(items)
            /\ calls[i].url = Href(items[j].links, "self")
            /\ calls[i].url = Href(items[j].links, "canonical")
            /\ Head(calls[i].url) = IF public THEN "https" ELSE "s3"
            /\ calls[i].op = "upload_json"
                  => calls[i].url = Href(calls[i].item.links, "self")

\* under public a record is published over a prior version: the check, the
\* read and the write all went to the HTTPS URL of its links
C18_Witness ==
    /\ public /\ Len(calls) = 3
    /\ calls[1].op = "exists" /\ calls[2].op = "read_json" /\ calls[3].op = "upload_json"
    /\ calls[3].ok
    /\ calls[1].url = <<"https", ":", "/", "/", "bucket", ".s3.", "us-east-1",
                        ".amazonaws.com", "/", "landsat", "/", "scene001", "/",
                        "scene001", ".json">>
    /\ calls[2].url = calls[1].url /\ calls[3].url = calls[1].url
    /\ items[1].links[1].href = calls[1].url

====
